---- MODULE Spec2Model ----
(***************************************************************************)
(* Model of the Bluesky baseline bot's change-detection engine             *)
(* (src/unnamed/part_003, the main module; src/deploy_main.ts and          *)
(* src/unnamed/part_005, the scheduled triggers).                          *)
(*                                                                         *)
(* The persisted state is the Deno KV store: the ["features", id] entries  *)
(* and the ["db_version"] entry.  One invocation at a time runs against    *)
(* it: the command-line module body (reset, or entrypoint), or a cron      *)
(* handler.  Every await of the source is a step boundary, so a crash or   *)
(* an error can fall between any two store operations.                     *)
(***************************************************************************)
EXTENDS Integers, Sequences, FiniteSets, TLC

\* ---------------------------------------------------------------- bounds
\* Feature keys of the catalog, 1..NumFeatures, in the store's key order.
NumFeatures == 2
\* Distinct feature records the catalog can hold for a key.
NumRecords == 2

FeatureIds == 1..NumFeatures
\* A Feature as the catalog delivers it (without feature_id).
Features == [description : 1..NumRecords]

\* ------------------------------------------------------------ store values
\* getFeatureHashFromDB's null: no entry under ["features", id].
NoHash == -1
\* getDatabaseVersion's undefined: no (numeric) entry under ["db_version"].
Absent == -1
\* No kv.set(["db_version"], ...) is in flight.
NoPending == -2
\* MIGRATIONS.length
NumMigrations == 1

\* ---------------------------------------------------------- pure functions
\* JSON.stringify of a feature object: the values of its own keys in key
\* order; feature_id, when the object carries one, comes last (it is added
\* last by the spread in extractNewFeaturesFromData).
JSONstringify(obj) ==
    IF "feature_id" \in DOMAIN obj
    THEN <<obj.description, obj.feature_id>>
    ELSE <<obj.description>>

\* crypto.subtle.digest over the encoded bytes, as a number: a polynomial
\* digest of fixed width standing for SHA-256 (collision-free on the
\* modelled records; the hex encoding of the digest is one-to-one).
RECURSIVE DigestFrom(_, _)
DigestFrom(h, bytes) ==
    IF bytes = <<>> THEN h
    ELSE DigestFrom((h * 33 + Head(bytes)) % 65536, Tail(bytes))

hashFeature(feature) == DigestFrom(5381, JSONstringify(feature))

\* All the catalogs a fetch can return: the "features" map of data.json as
\* the sequence of its entries in Object.keys order (keys are unique in a
\* JSON map).
RECURSIVE SeqsUpTo(_, _)
SeqsUpTo(S, n) ==
    IF n = 0 THEN {<<>>}
    ELSE LET shorter == SeqsUpTo(S, n - 1)
         IN  shorter \cup {Append(s, e) : s \in shorter, e \in S}

Entries == [key : FeatureIds, item : Features]

UniqueKeys(data) ==
    \A a, b \in 1..Len(data) : data[a].key = data[b].key => a = b

Catalogs == {d \in SeqsUpTo(Entries, NumFeatures) : UniqueKeys(d)}

EmptyStore == [id \in FeatureIds |-> NoHash]

\* ------------------------------------------------------------------ state
VARIABLES
    kvFeatures,      \* ["features", id] -> stored hash, or NoHash
    kvVersion,       \* ["db_version"] -> number, or Absent
    pendingVersion,  \* the un-awaited kv.set(["db_version"], v) in flight
    pc,              \* position of the running invocation, "idle" if none
    trigger,         \* "cli" | "cron" | "cron_catch" | "none"
    clearDb,         \* Deno.args includes "--clear-db"
    currentVersion,  \* prepareDatabase's local
    i,               \* runMigrationsStartingFrom's loop index
    latestData,      \* the catalog the running function fetched
    k,               \* index into Object.keys of the fetched catalog
    featureHash,     \* extractNewFeaturesFromData's local
    existingHash,    \* extractNewFeaturesFromData's local
    newFeatureItems, \* extractNewFeaturesFromData's result so far
    published,       \* features posted by this run, in order
    store0,          \* history: the feature entries when detection (or
                     \*   the running migration) started
    writes,          \* history: store writes issued in the current phase
    lastStatus,      \* how the last invocation ended, as its trigger sees
                     \*   it; "running" while one runs
    prevPrepared,    \* history: prepareDatabase returned in the previous
                     \*   invocation that called it, and no reset since
    prevData,        \* history: catalog of the last completed detection
                     \*   that started on an empty store with two entries
    chainData,       \* history: prevData as it was when detection started
    lastEnd,         \* history: how and where the last invocation ended
    detOps,          \* history: store reads and writes the detector issued
                     \*   in the running invocation
    prevCut,         \* history: the last invocation, if it was cut short in
                     \*   detection (crash) or in publishing (failure), and
                     \*   no migration or reset write since
    chainCut,        \* history: prevCut as it was when detection started
                     \*   over the same catalog
    deployment,      \* "all": main.ts is run from the command line and
                     \*   the cron handlers fire on the same store;
                     \*   "deploy": deploy_main.ts on Deno Deploy, where
                     \*   only Deno.cron starts runs;
                     \*   "local": only `deno run main.ts` starts runs
    gone,            \* history: the feature ids that hold an entry and
                     \*   were not in the catalog of the last invocation,
                     \*   if it completed
    baselineData,    \* history: the catalog MIGRATIONS[0] fetched in this
                     \*   invocation, if it ran
    overlapped       \* invocations of
                     \*   retrieveAndPostNewlyAvailableFeatures that run
                     \*   at the same time in separate processes on one
                     \*   store: the position and locals of each

vars == <<kvFeatures, kvVersion, pendingVersion, pc, trigger, clearDb,
          currentVersion, i, latestData, k, featureHash, existingHash,
          newFeatureItems, published, store0, writes, lastStatus,
          prevPrepared, prevData, chainData, lastEnd, detOps, prevCut,
          chainCut, deployment, gone, overlapped, baselineData>>

persisted == <<kvFeatures, kvVersion>>
locals == <<currentVersion, i, latestData, k, featureHash, existingHash,
            newFeatureItems, published>>

\* The processes whose invocations overlap.
NumOverlapping == 2
Processes == 1..NumOverlapping

\* A process with no invocation running: it has no locals.
NotRunning == [pc |-> "idle"]

NoneOverlapped == [p \in Processes |-> NotRunning]

\* No invocation has ended since the last one started.
NoEnd == [error |-> "none", at |-> "idle", writes |-> 0]

\* The last invocation was not cut short.
NoCut == [kind |-> "none", data |-> <<>>, rest |-> <<>>, writes |-> 0]

Init ==
    /\ kvFeatures = EmptyStore
    /\ kvVersion = Absent
    /\ pendingVersion = NoPending
    /\ pc = "idle"
    /\ trigger = "none"
    /\ clearDb = FALSE
    /\ currentVersion = Absent
    /\ i = 0
    /\ latestData = <<>>
    /\ k = 0
    /\ featureHash = NoHash
    /\ existingHash = NoHash
    /\ newFeatureItems = <<>>
    /\ published = <<>>
    /\ store0 = EmptyStore
    /\ writes = 0
    /\ lastStatus = "none"
    /\ prevPrepared = FALSE
    /\ prevData = <<>>
    /\ chainData = <<>>
    /\ lastEnd = NoEnd
    /\ detOps = 0
    /\ prevCut = NoCut
    /\ chainCut = NoCut
    /\ deployment = "all"
    /\ gone = {}
    /\ overlapped = NoneOverlapped
    /\ baselineData = <<>>

\* The invocation is over: its memory is gone; the store stays.
ResetLocals ==
    /\ pc' = "idle"
    /\ trigger' = "none"
    /\ clearDb' = FALSE
    /\ currentVersion' = Absent
    /\ i' = 0
    /\ latestData' = <<>>
    /\ k' = 0
    /\ featureHash' = NoHash
    /\ existingHash' = NoHash
    /\ newFeatureItems' = <<>>
    /\ published' = <<>>
    /\ store0' = EmptyStore
    /\ writes' = 0
    /\ chainData' = <<>>
    /\ detOps' = 0
    /\ chainCut' = NoCut
    /\ baselineData' = <<>>
    /\ UNCHANGED <<deployment, overlapped>>

\* -------------------------------------------------------- store accessors
\* getFeatureHashFromDB: the stored hash, or null.
getFeatureHashFromDB(featureId) == kvFeatures[featureId]

\* Faulty variant: the write never reaches the store.
setFeatureHashInDBLost(featureId, hash) == kvFeatures

\* setFeatureHashInDB: the store with ["features", featureId] set to hash.
setFeatureHashInDB(featureId, hash) ==
    [kvFeatures EXCEPT ![featureId] = hash]

\* getDatabaseVersion: the stored number, or undefined.
getDatabaseVersion == kvVersion

\* Faulty variant: a prefix no key has; the listing is empty.
listWrongPrefix == {}

\* kv.list({ prefix: ["features"] }): the keys that hold an entry.
listFeatureKeys == {id \in FeatureIds : kvFeatures[id] # NoHash}

\* Faulty variants of the condition: always true; the null test dropped; the
\* comparison inverted; the comparison dropped.
IsNewOrChangedAlways(existing, hash) == TRUE
IsNewOrChangedNoNull(existing, hash) == existing # NoHash /\ existing # hash
IsNewOrChangedInverted(existing, hash) == existing = NoHash \/ existing = hash
IsNewOrChangedNullOnly(existing, hash) == existing = NoHash

\* The condition of extractNewFeaturesFromData's if.
IsNewOrChanged(existing, hash) == existing = NoHash \/ existing # hash

\* { ...item, feature_id: featureKey }
itemWithId(entry) ==
    [description |-> entry.item.description, feature_id |-> entry.key]

\* Faulty variant: unshift instead of push.
pushFront(list, item) == <<item>> \o list

\* newFeatureItems.push(itemWithId)
push(list, item) == Append(list, item)

\* Faulty variant: the hash is taken of the item after feature_id was added.
hashedItemWithId(entry) == itemWithId(entry)

\* const item = featureItems[featureKey]: what the detector hands to
\* hashFeature (the item as fetched, before feature_id is added).
hashedItem(entry) == entry.item

\* Faulty variant: the flag test negated.
ClearRequestedInverted(flag) == ~flag

\* args.includes("--clear-db")
ClearRequested(flag) == flag

\* prepareDatabase's branches: whether runMigrationsStartingFrom is called,
\* and with which startVersion.
NeedsMigration(version) == version = Absent \/ version < NumMigrations
StartVersion(version) == IF version = Absent THEN 0 ELSE version

\* prepareDatabase has returned in the running invocation.
PreparedPcs == {"fetch", "det_loop", "det_set", "publish", "done"}
PreparedNow == trigger = "cli" /\ ~clearDb /\ pc \in PreparedPcs

\* ------------------------------------------------------- end of invocation
\* The invocation ends with `status`; an un-awaited write that has not
\* landed when a command-line process dies is lost.
\* The results a detection over `data` has yet to report: the candidates
\* that changed against the entries `before` and whose entry in `now` has not
\* been written.
StillToReport(data, before, now) ==
    LET Unwritten(e) ==
            /\ IsNewOrChanged(before[e.key], hashFeature(hashedItem(e)))
            /\ now[e.key] = before[e.key]
        kept == SelectSeq(data, Unwritten)
    IN  [n \in 1..Len(kept) |-> itemWithId(kept[n])]

\* What an invocation that ends with `error` leaves for the history; the
\* history is kept where runs follow one another on the schedule.
CutOf(error) ==
    IF deployment # "deploy"
    THEN prevCut
    ELSE IF error = "crash" /\ pc \in {"det_loop", "det_set"}
    THEN [kind |-> "crash", data |-> latestData,
          rest |-> StillToReport(latestData, store0, kvFeatures),
          writes |-> writes]
    ELSE IF error = "publish"
    THEN [kind |-> "publish", data |-> latestData,
          rest |-> SubSeq(newFeatureItems, Len(published) + 1,
                          Len(newFeatureItems)),
          writes |-> writes]
    ELSE prevCut

\* The feature ids of a catalog.
KeysOf(data) == {data[n].key : n \in 1..Len(data)}

\* The entries that an invocation that completed leaves without a
\* candidate: their feature was not in the catalog it detected over.  This
\* history is kept where every run goes through the entrypoint.
GoneAfter(error) ==
    IF deployment = "local" /\ error = "none" /\ pc = "done"
    THEN listFeatureKeys \ KeysOf(latestData)
    ELSE {}

EndRun(status, error) ==
    /\ ResetLocals
    /\ lastStatus' = status
    /\ lastEnd' = [error |-> error, at |-> pc, writes |-> writes]
    /\ prevCut' = CutOf(error)
    /\ gone' = GoneAfter(error)
    /\ prevPrepared' =
         IF trigger = "cli" /\ ~clearDb THEN PreparedNow ELSE prevPrepared
    /\ UNCHANGED <<kvFeatures, kvVersion, prevData>>

\* An error thrown by an awaited call.  Command line: uncaught, the process
\* exits non-zero.  deploy_main.ts: the handler's promise rejects.
\* part_005: the catch logs it and the handler completes.
Throw(error) ==
    /\ EndRun(IF trigger = "cron_catch" THEN "success" ELSE "failure", error)
    /\ pendingVersion' = NoPending

\* ------------------------------------------------------------- the triggers
\* deno run main.ts [--clear-db]: the import.meta.main block.
StartCli ==
    /\ pc = "idle"
    /\ deployment # "deploy"
    /\ \E flag \in BOOLEAN :
         /\ clearDb' = flag
         /\ pc' = IF ClearRequested(flag) THEN "clear_features" ELSE "prepare"
    /\ trigger' = "cli"
    /\ lastStatus' = "running"
    /\ UNCHANGED <<kvFeatures, kvVersion, pendingVersion, locals, store0,
                   writes, prevPrepared, prevData, chainData>>
    /\ lastEnd' = NoEnd
    /\ UNCHANGED <<detOps, prevCut, chainCut, deployment, gone, overlapped,
                   baselineData>>

\* Deno.cron fires a handler: retrieveAndPostNewlyAvailableFeatures directly.
StartCron ==
    /\ pc = "idle"
    /\ deployment # "local"
    /\ \E handler \in {"cron", "cron_catch"} : trigger' = handler
    /\ pc' = "fetch"
    /\ lastStatus' = "running"
    /\ UNCHANGED <<kvFeatures, kvVersion, pendingVersion, clearDb, locals,
                   store0, writes, prevPrepared, prevData, chainData>>
    /\ lastEnd' = NoEnd
    /\ UNCHANGED <<detOps, prevCut, chainCut, deployment, gone, overlapped,
                   baselineData>>

\* ----------------------------------------------------------- clearDatabase
\* for await (const entry of entries) await kv.delete(entry.key)
ClearDeleteFeature ==
    /\ pc = "clear_features"
    /\ listFeatureKeys # {}
    /\ LET id == CHOOSE x \in listFeatureKeys :
                    \A y \in listFeatureKeys : x <= y
       IN  kvFeatures' = [kvFeatures EXCEPT ![id] = NoHash]
    /\ writes' = writes + 1
    /\ prevPrepared' = FALSE
    /\ prevData' = <<>>
    /\ UNCHANGED <<kvVersion, pendingVersion, pc, trigger, clearDb, locals,
                   store0, lastStatus, chainData>>
    /\ prevCut' = NoCut
    /\ gone' = gone \cap {id \in FeatureIds : kvFeatures'[id] # NoHash}
    /\ UNCHANGED <<lastEnd, detOps, chainCut, deployment, overlapped,
                   baselineData>>

ClearListDone ==
    /\ pc = "clear_features"
    /\ listFeatureKeys = {}
    /\ pc' = "clear_version"
    /\ UNCHANGED <<kvFeatures, kvVersion, pendingVersion, trigger, clearDb,
                   locals, store0, writes, lastStatus, prevPrepared,
                   prevData, chainData>>
    /\ UNCHANGED <<lastEnd, detOps, prevCut, chainCut, deployment,
                   gone, overlapped,
                   baselineData>>

\* await kv.delete(["db_version"])
ClearDeleteVersion ==
    /\ pc = "clear_version"
    /\ kvVersion' = Absent
    /\ writes' = writes + 1
    /\ prevPrepared' = FALSE
    /\ pc' = "clear_exit"
    /\ UNCHANGED <<kvFeatures, pendingVersion, trigger, clearDb, locals,
                   store0, lastStatus, prevData, chainData>>
    /\ UNCHANGED <<lastEnd, detOps, prevCut, chainCut, deployment,
                   gone, overlapped,
                   baselineData>>

\* Faulty variant: no Deno.exit(0); the block goes on to entrypoint().
ClearExitFallsThrough ==
    /\ pc = "clear_exit"
    /\ pc' = "prepare"
    /\ UNCHANGED <<kvFeatures, kvVersion, pendingVersion, trigger, clearDb,
                   locals, store0, writes, lastStatus, prevPrepared,
                   prevData, chainData>>
    /\ UNCHANGED <<lastEnd, detOps, prevCut, chainCut, deployment,
                   gone, overlapped,
                   baselineData>>

\* Deno.exit(0)
ClearExit ==
    /\ pc = "clear_exit"
    /\ EndRun("success", "none")
    /\ pendingVersion' = NoPending

\* --------------------------------------------------------- prepareDatabase
PrepareDatabase ==
    /\ pc = "prepare"
    /\ currentVersion' = getDatabaseVersion
    /\ IF NeedsMigration(getDatabaseVersion)
       THEN /\ i' = StartVersion(getDatabaseVersion)
            /\ pc' = "mig_loop"
       ELSE /\ i' = i
            /\ pc' = "fetch"
    /\ UNCHANGED <<kvFeatures, kvVersion, pendingVersion, trigger, clearDb,
                   latestData, k, featureHash, existingHash,
                   newFeatureItems, published, store0, writes, lastStatus,
                   prevPrepared, prevData, chainData>>
    /\ UNCHANGED <<lastEnd, detOps, prevCut, chainCut, deployment,
                   gone, overlapped,
                   baselineData>>

\* Faulty variant: the version write is issued before the migration runs.
RunMigrationVersionFirst ==
    /\ pc = "mig_loop"
    /\ i < NumMigrations
    /\ pendingVersion' = NumMigrations
    /\ pc' = "mig_fetch"
    /\ UNCHANGED <<kvFeatures, kvVersion, trigger, clearDb,
                   locals, store0, writes, lastStatus, prevPrepared,
                   prevData, chainData>>
    /\ UNCHANGED <<lastEnd, detOps, prevCut, chainCut, deployment,
                   gone, overlapped,
                   baselineData>>

\* runMigrationsStartingFrom: the loop calls MIGRATIONS[i].
RunMigration ==
    /\ pc = "mig_loop"
    /\ i < NumMigrations
    /\ pc' = "mig_fetch"
    /\ UNCHANGED <<kvFeatures, kvVersion, pendingVersion, trigger, clearDb,
                   locals, store0, writes, lastStatus, prevPrepared,
                   prevData, chainData>>
    /\ UNCHANGED <<lastEnd, detOps, prevCut, chainCut, deployment,
                   gone, overlapped,
                   baselineData>>

\* MIGRATIONS[0]: const latestData = await getLatestWebPlatformReleaseData()
Migration0Fetch ==
    /\ pc = "mig_fetch"
    /\ \E data \in Catalogs :
         /\ latestData' = data
         /\ baselineData' = IF deployment = "first" THEN data ELSE <<>>
    /\ k' = 1
    /\ store0' = kvFeatures
    /\ pc' = "mig_set"
    /\ UNCHANGED <<kvFeatures, kvVersion, pendingVersion, trigger, clearDb,
                   currentVersion, i, featureHash, existingHash,
                   newFeatureItems, published, writes, lastStatus,
                   prevPrepared, prevData, chainData>>
    /\ UNCHANGED <<lastEnd, detOps, prevCut, chainCut, deployment,
                   gone, overlapped>>

\* Faulty variant: the migration fingerprints the record with its id added.
baselinedItemWithId(entry) == itemWithId(entry)

\* MIGRATIONS[0]: const item = features[featureKey], the value it hashes.
baselinedItem(entry) == entry.item

\* MIGRATIONS[0]: await setFeatureHashInDB(featureKey, featureHash)
Migration0Set ==
    /\ pc = "mig_set"
    /\ k <= Len(latestData)
    /\ kvFeatures' =
           setFeatureHashInDB(latestData[k].key,
                              hashFeature(baselinedItem(latestData[k])))
    /\ k' = k + 1
    /\ writes' = writes + 1
    /\ prevData' = <<>>
    /\ UNCHANGED <<kvVersion, pendingVersion, pc, trigger, clearDb,
                   currentVersion, i, latestData, featureHash, existingHash,
                   newFeatureItems, published, store0, lastStatus,
                   prevPrepared, chainData>>
    /\ prevCut' = NoCut
    /\ UNCHANGED <<lastEnd, detOps, chainCut, deployment, gone, overlapped,
                   baselineData>>

\* MIGRATIONS[0] returns; the loop goes on with i + 1.
Migration0Done ==
    /\ pc = "mig_set"
    /\ k > Len(latestData)
    /\ i' = i + 1
    /\ latestData' = <<>>
    /\ k' = 0
    /\ pc' = "mig_loop"
    /\ UNCHANGED <<kvFeatures, kvVersion, pendingVersion, trigger, clearDb,
                   currentVersion, featureHash, existingHash,
                   newFeatureItems, published, store0, writes, lastStatus,
                   prevPrepared, prevData, chainData>>
    /\ UNCHANGED <<lastEnd, detOps, prevCut, chainCut, deployment,
                   gone, overlapped,
                   baselineData>>

\* Faulty variant: the runner persists the version it started from.
VersionIsStartVersion == StartVersion(currentVersion)

\* The value runMigrationsStartingFrom hands to setDatabaseVersion.
VersionAfterMigrations == NumMigrations

\* runMigrationsStartingFrom after the loop: setDatabaseVersion(...) is
\* called and NOT awaited; the function returns with the write in flight.
SetDatabaseVersionUnawaited ==
    /\ pc = "mig_loop"
    /\ i >= NumMigrations
    /\ pendingVersion' = VersionAfterMigrations
    /\ writes' = writes + 1
    /\ pc' = "fetch"
    /\ UNCHANGED <<kvFeatures, kvVersion, trigger, clearDb, locals, store0,
                   lastStatus, prevPrepared, prevData, chainData>>
    /\ UNCHANGED <<lastEnd, detOps, prevCut, chainCut, deployment,
                   gone, overlapped,
                   baselineData>>

\* The in-flight kv.set(["db_version"], v) takes effect.
VersionWriteLands ==
    /\ pendingVersion # NoPending
    /\ kvVersion' = pendingVersion
    /\ pendingVersion' = NoPending
    /\ UNCHANGED <<kvFeatures, pc, trigger, clearDb, locals, store0, writes,
                   lastStatus, prevPrepared, prevData, chainData>>
    /\ UNCHANGED <<lastEnd, detOps, prevCut, chainCut, deployment,
                   gone, overlapped,
                   baselineData>>

\* ------------------------------------------- extractNewFeaturesFromData
\* const latestData = await getLatestWebPlatformReleaseData()
FetchLatestData ==
    /\ pc = "fetch"
    /\ \E data \in Catalogs :
         /\ latestData' = data
         /\ chainCut' = IF prevCut.data = data THEN prevCut ELSE NoCut
    /\ k' = 1
    /\ newFeatureItems' = <<>>
    /\ store0' = kvFeatures
    /\ writes' = 0
    /\ chainData' = prevData
    /\ prevData' = <<>>
    /\ pc' = "det_loop"
    /\ UNCHANGED <<kvFeatures, kvVersion, pendingVersion, trigger, clearDb,
                   currentVersion, i, featureHash, existingHash, published,
                   lastStatus, prevPrepared>>
    /\ detOps' = 0
    /\ prevCut' = NoCut
    /\ UNCHANGED <<lastEnd, deployment, gone, overlapped,
                   baselineData>>

\* One iteration up to the if: hashFeature, getFeatureHashFromDB, and the
\* condition holds: the item is pushed and setFeatureHashInDB is awaited.
DetectChanged ==
    /\ pc = "det_loop"
    /\ k <= Len(latestData)
    /\ LET entry == latestData[k]
           hash == hashFeature(hashedItem(entry))
           existing == getFeatureHashFromDB(entry.key)
       IN  /\ IsNewOrChanged(existing, hash)
           /\ featureHash' = hash
           /\ existingHash' = existing
           /\ newFeatureItems' = push(newFeatureItems, itemWithId(entry))
    /\ pc' = "det_set"
    /\ UNCHANGED <<kvFeatures, kvVersion, pendingVersion, trigger, clearDb,
                   currentVersion, i, latestData, k, published, store0,
                   writes, lastStatus, prevPrepared, prevData, chainData>>
    /\ detOps' = detOps + 1
    /\ UNCHANGED <<lastEnd, prevCut, chainCut, deployment, gone, overlapped,
                   baselineData>>

\* Faulty variant: the set is issued for every candidate, changed or not.
DetectUnchangedWrites ==
    /\ pc = "det_loop"
    /\ k <= Len(latestData)
    /\ LET entry == latestData[k]
       IN  /\ ~IsNewOrChanged(getFeatureHashFromDB(entry.key),
                               hashFeature(hashedItem(entry)))
           /\ kvFeatures' =
                  setFeatureHashInDB(entry.key,
                                     hashFeature(hashedItem(entry)))
    /\ k' = k + 1
    /\ writes' = writes + 1
    /\ UNCHANGED <<kvVersion, pendingVersion, pc, trigger,
                   clearDb, currentVersion, i, latestData, featureHash,
                   existingHash, newFeatureItems, published, store0,
                   lastStatus, prevPrepared, prevData, chainData>>
    /\ detOps' = detOps + 1
    /\ UNCHANGED <<lastEnd, prevCut, chainCut, deployment, gone, overlapped,
                   baselineData>>

\* One iteration whose condition fails: nothing is pushed or written.
DetectUnchanged ==
    /\ pc = "det_loop"
    /\ k <= Len(latestData)
    /\ LET entry == latestData[k]
       IN  ~IsNewOrChanged(getFeatureHashFromDB(entry.key),
                           hashFeature(hashedItem(entry)))
    /\ k' = k + 1
    /\ UNCHANGED <<kvFeatures, kvVersion, pendingVersion, pc, trigger,
                   clearDb, currentVersion, i, latestData, featureHash,
                   existingHash, newFeatureItems, published, store0, writes,
                   lastStatus, prevPrepared, prevData, chainData>>
    /\ detOps' = detOps + 1
    /\ UNCHANGED <<lastEnd, prevCut, chainCut, deployment, gone, overlapped,
                   baselineData>>

\* await setFeatureHashInDB(featureKey, featureHash) takes effect.
DetectSet ==
    /\ pc = "det_set"
    /\ kvFeatures' = setFeatureHashInDB(latestData[k].key, featureHash)
    /\ writes' = writes + 1
    /\ k' = k + 1
    /\ featureHash' = NoHash
    /\ existingHash' = NoHash
    /\ pc' = "det_loop"
    /\ UNCHANGED <<kvVersion, pendingVersion, trigger, clearDb,
                   currentVersion, i, latestData, newFeatureItems, published,
                   store0, lastStatus, prevPrepared, prevData, chainData>>
    /\ detOps' = detOps + 1
    /\ UNCHANGED <<lastEnd, prevCut, chainCut, deployment, gone, overlapped,
                   baselineData>>

\* Faulty variant: on return the detector prunes the entries of the features
\* that are not in the catalog.
DetectReturnPrunes ==
    /\ pc = "det_loop"
    /\ k > Len(latestData)
    /\ pc' = "publish"
    /\ kvFeatures' = [id \in FeatureIds |->
                         IF \E n \in 1..Len(latestData) :
                                latestData[n].key = id
                         THEN kvFeatures[id]
                         ELSE NoHash]
    /\ prevData' = <<>>
    /\ UNCHANGED <<kvVersion, pendingVersion, trigger, clearDb,
                   locals, store0, writes, lastStatus, prevPrepared,
                   chainData>>
    /\ UNCHANGED <<lastEnd, detOps, prevCut, chainCut, deployment,
                   gone, overlapped,
                   baselineData>>

\* return newFeatureItems; retrieveAndPostNewlyAvailableFeatures goes on to
\* publishNewlyAvailableFeaturesToBluesky(newFeatures).
DetectReturn ==
    /\ pc = "det_loop"
    /\ k > Len(latestData)
    /\ pc' = "publish"
    /\ prevData' = IF store0 = EmptyStore /\ Len(latestData) = 2
                   THEN latestData ELSE <<>>
    /\ UNCHANGED <<kvFeatures, kvVersion, pendingVersion, trigger, clearDb,
                   locals, store0, writes, lastStatus, prevPrepared,
                   chainData>>
    /\ UNCHANGED <<lastEnd, detOps, prevCut, chainCut, deployment,
                   gone, overlapped,
                   baselineData>>

\* ------------------------------- publishNewlyAvailableFeaturesToBluesky
\* Faulty variant: the features are published with a parallel fan-out
\* (Promise.all over the batch).
PublishFeatureFanOut ==
    /\ pc = "publish"
    /\ Len(published) < Len(newFeatureItems)
    /\ published' = newFeatureItems
    /\ UNCHANGED <<kvFeatures, kvVersion, pendingVersion, pc, trigger,
                   clearDb, currentVersion, i, latestData, k, featureHash,
                   existingHash, newFeatureItems, store0, writes, lastStatus,
                   prevPrepared, prevData, chainData>>
    /\ UNCHANGED <<lastEnd, detOps, prevCut, chainCut, deployment,
                   gone, overlapped,
                   baselineData>>

\* ------------------------------- publishNewlyAvailableFeaturesToBluesky
\* await publishFeatureToBluesky(feature), for the next feature.
PublishFeature ==
    /\ pc = "publish"
    /\ Len(published) < Len(newFeatureItems)
    /\ published' = Append(published, newFeatureItems[Len(published) + 1])
    /\ UNCHANGED <<kvFeatures, kvVersion, pendingVersion, pc, trigger,
                   clearDb, currentVersion, i, latestData, k, featureHash,
                   existingHash, newFeatureItems, store0, writes, lastStatus,
                   prevPrepared, prevData, chainData>>
    /\ UNCHANGED <<lastEnd, detOps, prevCut, chainCut, deployment,
                   gone, overlapped,
                   baselineData>>

\* The loop is over; console.log(`Published ${newFeatures.length} ...`).
PublishReturn ==
    /\ pc = "publish"
    /\ Len(published) = Len(newFeatureItems)
    /\ pc' = "done"
    /\ UNCHANGED <<kvFeatures, kvVersion, pendingVersion, trigger, clearDb,
                   locals, store0, writes, lastStatus, prevPrepared,
                   prevData, chainData>>
    /\ UNCHANGED <<lastEnd, detOps, prevCut, chainCut, deployment,
                   gone, overlapped,
                   baselineData>>

\* The invocation completes.  A command-line process exits only once the
\* event loop is empty, so the un-awaited version write has landed.
RunEnds ==
    /\ pc = "done"
    /\ pendingVersion = NoPending
    /\ EndRun("success", "none")
    /\ UNCHANGED pendingVersion

\* ---------------------------------------------------------------- failures
\* Faulty variant: the catalog is read lazily, so the fetch can also fail
\* inside the detection loop.
FetchFailsLate ==
    /\ pc \in {"mig_fetch", "fetch", "det_loop"}
    /\ Throw("fetch")

\* getLatestWebPlatformReleaseData throws (response not ok, no asset, ...).
FetchFails ==
    /\ pc \in {"mig_fetch", "fetch"}
    /\ Throw("fetch")

\* Faulty variant: the set that fails in detection has marked its candidate.
StoreFailsMarked ==
    /\ pc = "det_set"
    /\ ResetLocals
    /\ lastStatus' = IF trigger = "cron_catch" THEN "success" ELSE "failure"
    /\ lastEnd' = [error |-> "store", at |-> pc, writes |-> writes]
    /\ kvFeatures' = setFeatureHashInDB(latestData[k].key, featureHash)
    /\ gone' = {}
    /\ pendingVersion' = NoPending
    /\ UNCHANGED <<kvVersion, prevPrepared, prevData, prevCut>>

\* A kv.get, kv.set, kv.delete or kv.list that is awaited rejects.
StoreFails ==
    /\ \/ pc \in {"clear_features", "clear_version", "prepare", "det_set"}
       \/ pc \in {"mig_set", "det_loop"} /\ k <= Len(latestData)
    /\ Throw("store")

\* Faulty variant: a failed publish restores the entries detection found.
PublishFailsRollsBack ==
    /\ pc = "publish"
    /\ Len(published) < Len(newFeatureItems)
    /\ ResetLocals
    /\ lastStatus' = IF trigger = "cron_catch" THEN "success" ELSE "failure"
    /\ lastEnd' = [error |-> "publish", at |-> pc, writes |-> writes]
    /\ prevCut' = CutOf("publish")
    /\ kvFeatures' = store0
    /\ gone' = {}
    /\ pendingVersion' = NoPending
    /\ UNCHANGED <<kvVersion, prevPrepared, prevData>>

\* publishFeatureToBluesky throws (credentials, login, post).
PublishFails ==
    /\ pc = "publish"
    /\ Len(published) < Len(newFeatureItems)
    /\ Throw("publish")

\* The in-flight kv.set(["db_version"], v) rejects.  Nothing awaits it: the
\* rejection is unhandled and the command-line process exits non-zero.
VersionWriteFails ==
    /\ pendingVersion # NoPending
    /\ EndRun("failure", "version")
    /\ pendingVersion' = NoPending

\* The process dies (kill, power loss, host restart) at any step.
Crash ==
    /\ pc # "idle"
    /\ EndRun("crashed", "crash")
    /\ pendingVersion' = NoPending

Next ==
    \/ StartCli
    \/ StartCron
    \/ ClearDeleteFeature
    \/ ClearListDone
    \/ ClearDeleteVersion
    \/ ClearExit
    \/ PrepareDatabase
    \/ RunMigration
    \/ Migration0Fetch
    \/ Migration0Set
    \/ Migration0Done
    \/ SetDatabaseVersionUnawaited
    \/ VersionWriteLands
    \/ FetchLatestData
    \/ DetectChanged
    \/ DetectUnchanged
    \/ DetectSet
    \/ DetectReturn
    \/ PublishFeature
    \/ PublishReturn
    \/ RunEnds
    \/ FetchFails
    \/ StoreFails
    \/ PublishFails
    \/ VersionWriteFails
    \/ Crash

Spec == Init /\ [][Next]_vars

\* deploy_main.ts on Deno Deploy: runs are started by Deno.cron only and
\* follow one another on the store the previous run left.
InitDeploy ==
    /\ kvFeatures = EmptyStore
    /\ kvVersion = Absent
    /\ pendingVersion = NoPending
    /\ pc = "idle"
    /\ trigger = "none"
    /\ clearDb = FALSE
    /\ currentVersion = Absent
    /\ i = 0
    /\ latestData = <<>>
    /\ k = 0
    /\ featureHash = NoHash
    /\ existingHash = NoHash
    /\ newFeatureItems = <<>>
    /\ published = <<>>
    /\ store0 = EmptyStore
    /\ writes = 0
    /\ lastStatus = "none"
    /\ prevPrepared = FALSE
    /\ prevData = <<>>
    /\ chainData = <<>>
    /\ lastEnd = NoEnd
    /\ detOps = 0
    /\ prevCut = NoCut
    /\ chainCut = NoCut
    /\ deployment = "deploy"
    /\ gone = {}
    /\ overlapped = NoneOverlapped
    /\ baselineData = <<>>

NextDeploy ==
    \/ StartCron
    \/ FetchLatestData
    \/ DetectChanged
    \/ DetectUnchanged
    \/ DetectSet
    \/ DetectReturn
    \/ PublishFeature
    \/ PublishReturn
    \/ RunEnds
    \/ FetchFails
    \/ StoreFails
    \/ PublishFails
    \/ Crash

SpecDeploy == InitDeploy /\ [][NextDeploy]_vars

\* main.ts run from the command line only (deno run main.ts [--clear-db]),
\* one invocation after the other on the store the previous one left.
InitLocal ==
    /\ kvFeatures = EmptyStore
    /\ kvVersion = Absent
    /\ pendingVersion = NoPending
    /\ pc = "idle"
    /\ trigger = "none"
    /\ clearDb = FALSE
    /\ currentVersion = Absent
    /\ i = 0
    /\ latestData = <<>>
    /\ k = 0
    /\ featureHash = NoHash
    /\ existingHash = NoHash
    /\ newFeatureItems = <<>>
    /\ published = <<>>
    /\ store0 = EmptyStore
    /\ writes = 0
    /\ lastStatus = "none"
    /\ prevPrepared = FALSE
    /\ prevData = <<>>
    /\ chainData = <<>>
    /\ lastEnd = NoEnd
    /\ detOps = 0
    /\ prevCut = NoCut
    /\ chainCut = NoCut
    /\ deployment = "local"
    /\ gone = {}
    /\ overlapped = NoneOverlapped
    /\ baselineData = <<>>

NextLocal ==
    \/ StartCli
    \/ ClearDeleteFeature
    \/ ClearListDone
    \/ ClearDeleteVersion
    \/ ClearExit
    \/ PrepareDatabase
    \/ RunMigration
    \/ Migration0Fetch
    \/ Migration0Set
    \/ Migration0Done
    \/ SetDatabaseVersionUnawaited
    \/ VersionWriteLands
    \/ FetchLatestData
    \/ DetectChanged
    \/ DetectUnchanged
    \/ DetectSet
    \/ DetectReturn
    \/ PublishFeature
    \/ PublishReturn
    \/ RunEnds
    \/ FetchFails
    \/ StoreFails
    \/ PublishFails
    \/ VersionWriteFails
    \/ Crash

SpecLocal == InitLocal /\ [][NextLocal]_vars

\* ------------------------------------------------------ failure-free runs
\* The steps of an invocation on its own thread of awaits.
AwaitedSteps ==
    \/ ClearDeleteFeature
    \/ ClearListDone
    \/ ClearDeleteVersion
    \/ ClearExit
    \/ PrepareDatabase
    \/ RunMigration
    \/ Migration0Fetch
    \/ Migration0Set
    \/ Migration0Done
    \/ SetDatabaseVersionUnawaited
    \/ FetchLatestData
    \/ DetectChanged
    \/ DetectUnchanged
    \/ DetectSet
    \/ DetectReturn
    \/ PublishFeature
    \/ PublishReturn
    \/ RunEnds

\* No crash and no fetch, store or publish failure.
NextNoFailure ==
    \/ StartCli
    \/ StartCron
    \/ AwaitedSteps
    \/ VersionWriteLands

\* With no failure every awaited call resolves and the event loop resumes
\* the continuation, and the in-flight version write takes effect; when a
\* trigger fires is up to the environment.
SpecFair ==
    /\ Init
    /\ [][NextNoFailure]_vars
    /\ WF_vars(AwaitedSteps)
    /\ WF_vars(VersionWriteLands)

\* deno run main.ts [--clear-db] invocations that run to completion, one
\* after the other, so that entrypoint finds the version absent only on a
\* store that holds nothing; the catalog the migration of the invocation
\* fetched is kept as history.
InitFirst ==
    /\ kvFeatures = EmptyStore
    /\ kvVersion = Absent
    /\ pendingVersion = NoPending
    /\ pc = "idle"
    /\ trigger = "none"
    /\ clearDb = FALSE
    /\ currentVersion = Absent
    /\ i = 0
    /\ latestData = <<>>
    /\ k = 0
    /\ featureHash = NoHash
    /\ existingHash = NoHash
    /\ newFeatureItems = <<>>
    /\ published = <<>>
    /\ store0 = EmptyStore
    /\ writes = 0
    /\ lastStatus = "none"
    /\ prevPrepared = FALSE
    /\ prevData = <<>>
    /\ chainData = <<>>
    /\ lastEnd = NoEnd
    /\ detOps = 0
    /\ prevCut = NoCut
    /\ chainCut = NoCut
    /\ deployment = "first"
    /\ gone = {}
    /\ overlapped = NoneOverlapped
    /\ baselineData = <<>>

NextFirst ==
    \/ StartCli
    \/ AwaitedSteps
    \/ VersionWriteLands

SpecFirst == InitFirst /\ [][NextFirst]_vars

\* ------------------------------------------------ overlapping invocations
\* Everything but the feature entries and the overlapping invocations.
singleInvocation ==
    <<kvVersion, pendingVersion, pc, trigger, clearDb, locals, published,
      store0, writes, lastStatus, prevPrepared, prevData, chainData, lastEnd,
      detOps, prevCut, chainCut, deployment, gone, baselineData>>

\* Faulty variant: an invocation waits until no other one is running.
OverlapStartLocked(p) ==
    /\ \A q \in Processes : overlapped[q].pc = "idle"
    /\ overlapped' = [overlapped EXCEPT ![p].pc = "fetch"]
    /\ UNCHANGED <<kvFeatures, singleInvocation>>

\* Process p calls retrieveAndPostNewlyAvailableFeatures (a cron handler, or
\* a command line run on a prepared store); nothing in the code looks at
\* whether an invocation is already running.
OverlapStart(p) ==
    /\ overlapped[p].pc = "idle"
    /\ overlapped' = [overlapped EXCEPT ![p].pc = "fetch"]
    /\ UNCHANGED <<kvFeatures, singleInvocation>>

\* Process q has fetched its catalog and its invocation has not ended.
HasFetched(q) == overlapped[q].pc \in {"det_loop", "det_set", "publish"}

\* const latestData = await getLatestWebPlatformReleaseData().  `later`
\* tells that another running invocation had fetched its catalog before.
OverlapFetch(p) ==
    /\ overlapped[p].pc = "fetch"
    /\ \E data \in Catalogs :
         overlapped' =
             [q \in Processes |->
                 IF q = p
                 THEN [pc |-> "det_loop", latestData |-> data, k |-> 1,
                       featureHash |-> NoHash, newFeatureItems |-> <<>>,
                       published |-> <<>>,
                       later |-> \E r \in Processes \ {p} : HasFetched(r)]
                 ELSE IF HasFetched(q)
                      THEN [overlapped[q] EXCEPT !.later = FALSE]
                      ELSE overlapped[q]]
    /\ UNCHANGED <<kvFeatures, singleInvocation>>

\* One iteration up to the if, condition true: the item is pushed.
OverlapDetectChanged(p) ==
    /\ overlapped[p].pc = "det_loop"
    /\ overlapped[p].k <= Len(overlapped[p].latestData)
    /\ LET entry == overlapped[p].latestData[overlapped[p].k]
           hash == hashFeature(hashedItem(entry))
       IN  /\ IsNewOrChanged(getFeatureHashFromDB(entry.key), hash)
           /\ overlapped' =
                  [overlapped EXCEPT
                      ![p].featureHash = hash,
                      ![p].newFeatureItems =
                          push(overlapped[p].newFeatureItems,
                               itemWithId(entry)),
                      ![p].pc = "det_set"]
    /\ UNCHANGED <<kvFeatures, singleInvocation>>

\* One iteration whose condition fails.
OverlapDetectUnchanged(p) ==
    /\ overlapped[p].pc = "det_loop"
    /\ overlapped[p].k <= Len(overlapped[p].latestData)
    /\ LET entry == overlapped[p].latestData[overlapped[p].k]
       IN  ~IsNewOrChanged(getFeatureHashFromDB(entry.key),
                           hashFeature(hashedItem(entry)))
    /\ overlapped' = [overlapped EXCEPT ![p].k = overlapped[p].k + 1]
    /\ UNCHANGED <<kvFeatures, singleInvocation>>

\* await setFeatureHashInDB(featureKey, featureHash) takes effect.
OverlapDetectSet(p) ==
    /\ overlapped[p].pc = "det_set"
    /\ kvFeatures' =
           setFeatureHashInDB(overlapped[p].latestData[overlapped[p].k].key,
                              overlapped[p].featureHash)
    /\ overlapped' = [overlapped EXCEPT ![p].k = overlapped[p].k + 1,
                                        ![p].featureHash = NoHash,
                                        ![p].pc = "det_loop"]
    /\ UNCHANGED singleInvocation

\* return newFeatureItems
OverlapDetectReturn(p) ==
    /\ overlapped[p].pc = "det_loop"
    /\ overlapped[p].k > Len(overlapped[p].latestData)
    /\ overlapped' = [overlapped EXCEPT ![p].pc = "publish"]
    /\ UNCHANGED <<kvFeatures, singleInvocation>>

\* await publishFeatureToBluesky(feature), for the next feature.
OverlapPublishFeature(p) ==
    /\ overlapped[p].pc = "publish"
    /\ Len(overlapped[p].published) < Len(overlapped[p].newFeatureItems)
    /\ overlapped' =
           [overlapped EXCEPT ![p].published =
               Append(overlapped[p].published,
                      overlapped[p].newFeatureItems[
                          Len(overlapped[p].published) + 1])]
    /\ UNCHANGED <<kvFeatures, singleInvocation>>

\* The invocation of process p completes.
OverlapEnds(p) ==
    /\ overlapped[p].pc = "publish"
    /\ Len(overlapped[p].published) = Len(overlapped[p].newFeatureItems)
    /\ overlapped' = [overlapped EXCEPT ![p] = NotRunning]
    /\ UNCHANGED <<kvFeatures, singleInvocation>>

\* Two processes share the store, each running
\* retrieveAndPostNewlyAvailableFeatures again and again, their awaited
\* steps interleaved in any order.
InitOverlap ==
    /\ kvFeatures = EmptyStore
    /\ kvVersion = Absent
    /\ pendingVersion = NoPending
    /\ pc = "idle"
    /\ trigger = "none"
    /\ clearDb = FALSE
    /\ currentVersion = Absent
    /\ i = 0
    /\ latestData = <<>>
    /\ k = 0
    /\ featureHash = NoHash
    /\ existingHash = NoHash
    /\ newFeatureItems = <<>>
    /\ published = <<>>
    /\ store0 = EmptyStore
    /\ writes = 0
    /\ lastStatus = "none"
    /\ prevPrepared = FALSE
    /\ prevData = <<>>
    /\ chainData = <<>>
    /\ lastEnd = NoEnd
    /\ detOps = 0
    /\ prevCut = NoCut
    /\ chainCut = NoCut
    /\ deployment = "overlap"
    /\ gone = {}
    /\ overlapped = NoneOverlapped
    /\ baselineData = <<>>

NextOverlap ==
    \E p \in Processes :
        \/ OverlapStart(p)
        \/ OverlapFetch(p)
        \/ OverlapDetectChanged(p)
        \/ OverlapDetectUnchanged(p)
        \/ OverlapDetectSet(p)
        \/ OverlapDetectReturn(p)
        \/ OverlapPublishFeature(p)
        \/ OverlapEnds(p)

SpecOverlap == InitOverlap /\ [][NextOverlap]_vars

TypeOK ==
    /\ kvFeatures \in [FeatureIds -> {NoHash} \cup 0..65535]
    /\ kvVersion \in {Absent} \cup 0..NumMigrations
    /\ pendingVersion \in {NoPending} \cup 0..NumMigrations
    /\ latestData \in Catalogs
    /\ k \in 0..(NumFeatures + 1)
    /\ writes \in 0..(NumFeatures + 1)
    /\ detOps \in 0..(2 * NumFeatures)
    /\ lastEnd.error \in {"none", "fetch", "store", "publish", "version",
                          "crash"}
    /\ prevCut.kind \in {"none", "crash", "publish"}
    /\ baselineData \in Catalogs
    /\ \A p \in Processes :
         /\ overlapped[p].pc \in {"idle", "fetch", "det_loop", "det_set",
                                   "publish"}
         /\ HasFetched(p) => overlapped[p].latestData \in Catalogs

\* ------------------------------------------------------------- properties
\* The (feature_id, record) pair the detector is to return for an entry.
ResultOf(entry) ==
    [description |-> entry.item.description, feature_id |-> entry.key]

\* The record of a returned feature, as it was fetched.
RecordOf(feature) == [description |-> feature.description]

\* extractNewFeaturesFromData has returned: latestData was its input,
\* store0 the entries before it ran, newFeatureItems its result.
DetectionReturned == pc \in {"publish", "done"}

\* The entries of `data` whose fingerprint in `st` is absent or differs,
\* in the order of `data`.
RECURSIVE ChangedOf(_, _)
ChangedOf(data, st) ==
    IF data = <<>> THEN <<>>
    ELSE LET e == Head(data)
             rest == ChangedOf(Tail(data), st)
         IN  IF st[e.key] = NoHash \/ st[e.key] # hashFeature(e.item)
             THEN <<ResultOf(e)>> \o rest
             ELSE rest

\* C1 (at-most-once per change): whenever a feature is added to a detection
\* result, the fingerprint recorded for it in the store is absent or
\* differs from the fingerprint of its record; and while the result is being
\* published, the store records exactly the fingerprint of every feature
\* of the result, so that a later run over the same record skips it.
C1_IncludedOnlyWhenChanged ==
    [][Len(newFeatureItems') = Len(newFeatureItems) + 1 =>
         LET f == newFeatureItems'[Len(newFeatureItems')]
         IN  \/ kvFeatures[f.feature_id] = NoHash
             \/ kvFeatures[f.feature_id] # hashFeature(RecordOf(f))]_vars

C1_PublishedIsRecorded ==
    DetectionReturned =>
        \A n \in 1..Len(newFeatureItems) :
            kvFeatures[newFeatureItems[n].feature_id]
                = hashFeature(RecordOf(newFeatureItems[n]))

C1_AtMostOncePerChange ==
    C1_IncludedOnlyWhenChanged /\ []C1_PublishedIsRecorded

\* A later run over two features that an earlier run reported: the changed
\* one is reported again, the unchanged one is not.
C1_Witness ==
    /\ DetectionReturned
    /\ Len(chainData) = 2
    /\ Len(latestData) = 2
    /\ Len(newFeatureItems) = 1

\* C2 (first-sight detection): a detection run over the single candidate
\* (id, r), started with no entry for id, returns exactly <<(id, r)>> and
\* leaves the entry of id equal to fingerprint(r).
C2_FirstSight ==
    (DetectionReturned /\ Len(latestData) = 1
        /\ store0[latestData[1].key] = NoHash) =>
    /\ newFeatureItems = <<ResultOf(latestData[1])>>
    /\ kvFeatures[latestData[1].key] = hashFeature(latestData[1].item)

C2_Witness ==
    /\ DetectionReturned
    /\ Len(latestData) = 1
    /\ store0[latestData[1].key] = NoHash

\* C3 (stability): a detection run over the single candidate (id, r),
\* started with the entry id -> fingerprint(r), returns the empty sequence.
C3_Stability ==
    (DetectionReturned /\ Len(latestData) = 1
        /\ store0[latestData[1].key] = hashFeature(latestData[1].item)) =>
    newFeatureItems = <<>>

C3_Witness ==
    /\ DetectionReturned
    /\ Len(latestData) = 1
    /\ store0[latestData[1].key] = hashFeature(latestData[1].item)

\* C4 (change propagation): a detection run over the single candidate
\* (id, r2), started with the entry id -> fingerprint(r1) for a record
\* r1 # r2 of another fingerprint, returns <<(id, r2)>> and leaves the
\* entry of id equal to fingerprint(r2).
C4_Precondition ==
    /\ DetectionReturned
    /\ Len(latestData) = 1
    /\ \E r1 \in Features :
         /\ r1 # latestData[1].item
         /\ hashFeature(r1) # hashFeature(latestData[1].item)
         /\ store0[latestData[1].key] = hashFeature(r1)

C4_ChangePropagation ==
    C4_Precondition =>
    /\ newFeatureItems = <<ResultOf(latestData[1])>>
    /\ kvFeatures[latestData[1].key] = hashFeature(latestData[1].item)

C4_Witness == C4_Precondition /\ pc = "done"

\* C5 (order preservation): the result of a detection run is exactly the
\* subsequence of its input made of the candidates whose entry, when the
\* run started, was absent or differed from the new fingerprint, in the
\* input's order.
C5_OrderPreservation ==
    DetectionReturned => newFeatureItems = ChangedOf(latestData, store0)

\* Two candidates, given in descending key order, both changed.
C5_Witness ==
    /\ DetectionReturned
    /\ Len(latestData) = 2
    /\ latestData[1].key > latestData[2].key
    /\ Len(newFeatureItems) = 2

\* C6 (two-run scenario): a detection run over <<(x, A), (y, B)>> started
\* on an empty store returns both and persists both fingerprints; the
\* detection run that follows it, over <<(x, A), (y, C)>> with C # B,
\* returns only <<(y, C)>>.
C6_SecondRun ==
    /\ DetectionReturned
    /\ Len(chainData) = 2
    /\ Len(latestData) = 2
    /\ latestData[1] = chainData[1]
    /\ latestData[2].key = chainData[2].key
    /\ latestData[2].item # chainData[2].item

C6_TwoRunScenario ==
    /\ (DetectionReturned /\ store0 = EmptyStore /\ Len(latestData) = 2) =>
         /\ newFeatureItems = <<ResultOf(latestData[1]),
                                ResultOf(latestData[2])>>
         /\ \A n \in 1..2 : kvFeatures[latestData[n].key]
                                = hashFeature(latestData[n].item)
    /\ C6_SecondRun => newFeatureItems = <<ResultOf(latestData[2])>>

C6_Witness == C6_SecondRun /\ pc = "publish"

\* C7 (migration idempotence): once prepareDatabase has returned in an
\* invocation, the prepareDatabase of the next invocation performs no store
\* write and leaves the version as it found it.
InOrAfterPrepare ==
    /\ trigger = "cli"
    /\ ~clearDb
    /\ pc \in {"mig_loop", "mig_fetch", "mig_set", "fetch"}

NoPrepareWrites ==
    /\ writes = 0
    /\ pendingVersion = NoPending
    /\ kvVersion = currentVersion

C7_MigrationIdempotence ==
    InOrAfterPrepare /\ prevPrepared => NoPrepareWrites

\* The general case of C7 alone: prepareDatabase on a stored version
\* v >= MIGRATIONS.length returns at once, without any store write.
C7_NoOpWhenCurrent ==
    InOrAfterPrepare /\ currentVersion >= NumMigrations =>
        pc = "fetch" /\ NoPrepareWrites

\* C8 (reset completeness): when clearDatabase has completed, the version
\* read returns undefined and the lookup of every feature id returns null.
C8_ResetCompleteness ==
    pc = "clear_exit" =>
    /\ getDatabaseVersion = Absent
    /\ \A id \in FeatureIds : getFeatureHashFromDB(id) = NoHash

\* A reset that deleted at least one feature entry.
C8_Witness == pc = "clear_exit" /\ writes > 1

\* C9 (version monotonicity): no step lowers the persisted version, except
\* the version delete of an invocation started with --clear-db.
C9_VersionMonotone ==
    [][kvVersion' < kvVersion => clearDb /\ pc = "clear_version"]_vars

\* An entrypoint run that found no version, migrated, detected and
\* published, with the version now written.
C9_Witness ==
    /\ pc = "done"
    /\ trigger = "cli"
    /\ ~clearDb
    /\ currentVersion = Absent
    /\ kvVersion = NumMigrations

\* C10 (detection only on a migrated store): when detection is about to
\* perform its first store read, the persisted version equals the number
\* of migrations and no version write is outstanding.
C10_DetectsOnMigratedStore ==
    (pc = "det_loop" /\ k = 1 /\ Len(latestData) >= 1) =>
    /\ kvVersion = NumMigrations
    /\ pendingVersion = NoPending

\* ---------------------------------------------------------------------- C11
\* A migration is executing: MIGRATIONS[i] has been called and not returned.
MigrationExecuting == pc \in {"mig_fetch", "mig_set"}

\* C11: a step in which a migration's catalog fetch or store write fails ends
\* the invocation: at that step the detector has issued no store read or
\* write and nothing has been published in the invocation, no version write
\* has been issued, and the persisted version is the one prepareDatabase
\* read, before and after the step.
C11_MigrationErrorAborts ==
    [][(MigrationExecuting /\ lastEnd'.error \in {"fetch", "store"}) =>
         /\ pc' = "idle"
         /\ detOps = 0
         /\ newFeatureItems = <<>>
         /\ published = <<>>
         /\ pendingVersion = NoPending
         /\ pendingVersion' = NoPending
         /\ kvVersion = currentVersion
         /\ kvVersion' = kvVersion]_vars

\* A migration's store write failed after one of its writes took effect.
C11_Witness ==
    /\ pc = "idle"
    /\ lastEnd.error = "store"
    /\ lastEnd.at = "mig_set"
    /\ lastEnd.writes = 1
    /\ kvFeatures # EmptyStore
    /\ kvVersion = Absent

\* ---------------------------------------------------------------------- C12
\* runMigrationsStartingFrom was called in the running invocation and has
\* returned to prepareDatabase.
RunnerReturned == PreparedNow /\ NeedsMigration(currentVersion)

\* The part of C12 that holds: while a migration of the batch is still to
\* run or running, no version write has been issued and the persisted
\* version is the one prepareDatabase read.
C12_VersionAfterMigrationWrites ==
    (pc \in {"mig_loop", "mig_fetch", "mig_set"}) =>
        /\ pendingVersion = NoPending
        /\ kvVersion = currentVersion

\* C12: the version write is ordered after every fingerprint write of the
\* batch, and once the migration runner has returned to its caller the
\* version write has taken effect: the persisted version is the number of
\* migrations and no version write is in flight.
C12_DurabilityOrdering ==
    /\ C12_VersionAfterMigrationWrites
    /\ RunnerReturned =>
          /\ pendingVersion = NoPending
          /\ kvVersion = NumMigrations

\* ---------------------------------------------------------------------- C13
\* MIGRATIONS[0] run to its end over `data` on the entries `st`: every
\* catalog feature's entry is set to its fingerprint, in catalog order.
RECURSIVE MigrateAll(_, _)
MigrateAll(data, st) ==
    IF data = <<>>
    THEN st
    ELSE MigrateAll(Tail(data),
                    [st EXCEPT ![Head(data).key] =
                                   hashFeature(Head(data).item)])

\* The last invocation died while a migration was executing.
CrashedInMigration ==
    /\ lastEnd.error = "crash"
    /\ lastEnd.at \in {"mig_fetch", "mig_set"}

\* The parts of C13 that hold.  A crash while a migration executes leaves
\* the persisted version as prepareDatabase read it, and that version still
\* asks for the migration; prepareDatabase then starts the runner at the
\* persisted version (absent as 0) before any detection or publishing.
C13_VersionUnchangedByCrash ==
    [][/\ (MigrationExecuting /\ lastEnd'.error = "crash") =>
             /\ kvVersion = currentVersion
             /\ kvVersion' = kvVersion
             /\ NeedsMigration(kvVersion')
       /\ (pc = "prepare" /\ pc' # "idle" /\ NeedsMigration(kvVersion)) =>
             /\ pc' = "mig_loop"
             /\ i' = StartVersion(kvVersion)
             /\ detOps' = 0
             /\ published' = <<>>]_vars

\* Whatever part of the migration's writes a crash leaves behind, applying
\* the migration again over the same catalog gives the entries a single
\* uninterrupted application gives; and the migration that returns has
\* applied all of it.
C13_ReapplyIdempotent ==
    (pc = "mig_set") =>
        /\ MigrateAll(latestData, kvFeatures) = MigrateAll(latestData, store0)
        /\ (k > Len(latestData)) =>
              kvFeatures = MigrateAll(latestData, store0)

\* C13: a crash while a migration executes leaves the persisted version
\* unchanged, and the next run (any invocation that is not a reset) starts
\* with prepareDatabase, which re-executes the migrations from the persisted
\* version before anything else.
C13_CrashDuringMigration ==
    /\ C13_VersionUnchangedByCrash
    /\ [][(/\ CrashedInMigration
            /\ pc = "idle"
            /\ pc' # "idle"
            /\ ~clearDb') => pc' = "prepare"]_vars

\* ---------------------------------------------------------------------- C14
\* Candidate n of the batch changed against the entries detection started on.
ChangedAtStart(n) ==
    IsNewOrChanged(store0[latestData[n].key],
                   hashFeature(hashedItem(latestData[n])))

\* C14: while detection processes candidate k (the point a crash would cut
\* it at), the entries of the changed candidates before k hold their new
\* fingerprints and the entries of candidate k onward are as detection found
\* them; and a detection run that follows a crashed one over the same batch
\* returns exactly the changed candidates whose entry the crashed run had
\* not written, in order.
C14_CrashDuringDetection ==
    /\ (pc \in {"det_loop", "det_set"}) =>
          /\ \A n \in 1..(k - 1) :
                kvFeatures[latestData[n].key] =
                    IF ChangedAtStart(n)
                    THEN hashFeature(hashedItem(latestData[n]))
                    ELSE store0[latestData[n].key]
          /\ \A n \in k..Len(latestData) :
                kvFeatures[latestData[n].key] = store0[latestData[n].key]
    /\ (DetectionReturned /\ chainCut.kind = "crash") =>
          newFeatureItems = chainCut.rest

\* The crashed run had written its first changed candidate and not the
\* second; the run after it, over the same batch, returned the second only.
C14_Witness ==
    /\ DetectionReturned
    /\ chainCut.kind = "crash"
    /\ chainCut.writes = 1
    /\ Len(latestData) = 2
    /\ newFeatureItems = <<ResultOf(latestData[2])>>

\* ---------------------------------------------------------------------- C15
\* Feature `item` of a detection result is in the list `items`.
Reported(item, items) == \E n \in 1..Len(items) : items[n] = item

\* Mark-on-detect: nothing is published while detection runs, and from the
\* first publish call on the store holds the fingerprint of every feature of
\* the result.
C15_MarkedBeforePublish ==
    /\ (pc \in {"fetch", "det_loop", "det_set"}) => published = <<>>
    /\ (pc = "publish") =>
          \A n \in 1..Len(newFeatureItems) :
              kvFeatures[newFeatureItems[n].feature_id] =
                  hashFeature(RecordOf(newFeatureItems[n]))

\* No rollback: the step in which a publish fails ends the run with the
\* store as it was and the remaining features unpublished.
C15_FailedPublishKeepsStore ==
    (pc = "publish" /\ lastEnd'.error = "publish") =>
        /\ pc' = "idle"
        /\ kvFeatures' = kvFeatures
        /\ Len(published) < Len(newFeatureItems)

\* The detection that follows a failed publish, over the same catalog,
\* reports neither the feature whose publish failed nor those after it.
C15_NotReportedAgain ==
    (DetectionReturned /\ chainCut.kind = "publish") =>
        \A n \in 1..Len(chainCut.rest) :
            ~Reported(chainCut.rest[n], newFeatureItems)

\* C15: a changed feature's entry is written during detection, before any
\* publish call of the run; a failed publish rolls no store write back and
\* ends the run with the features after it unpublished; the next run over
\* the same catalog reports neither the failed feature nor the unpublished
\* ones.
C15_MarkOnDetectNoRollback ==
    /\ []C15_MarkedBeforePublish
    /\ [][C15_FailedPublishKeepsStore]_vars
    /\ []C15_NotReportedAgain

\* A run wrote two entries, published the first feature and failed on the
\* second; the run after it, over the same catalog, reported nothing.
C15_Witness ==
    /\ DetectionReturned
    /\ chainCut.kind = "publish"
    /\ chainCut.writes = 2
    /\ Len(chainCut.rest) = 1
    /\ newFeatureItems = <<>>

\* ---------------------------------------------------------------------- C16
\* extractNewFeaturesFromData is running or about to be called.
DetectionPhase == pc \in {"fetch", "det_loop", "det_set"}

\* C16: a step in which the catalog fetch of the detection phase fails ends
\* the run with that error: the detector has issued no store read or write,
\* the feature entries are left as they were, and nothing has been
\* published in the run.
C16_FetchFailureInDetection ==
    [][(DetectionPhase /\ lastEnd'.error = "fetch") =>
         /\ pc' = "idle"
         /\ detOps = 0
         /\ newFeatureItems = <<>>
         /\ published = <<>>
         /\ kvFeatures' = kvFeatures]_vars

\* A run on a store that holds entries ended at the detection's fetch.
C16_Witness ==
    /\ pc = "idle"
    /\ lastEnd.error = "fetch"
    /\ lastEnd.at = "fetch"
    /\ kvFeatures # EmptyStore

\* ---------------------------------------------------------------------- C17
\* C17: a step in which a store get or set (or the version write still in
\* flight) fails while detection processes candidate k ends the run there:
\* the detector has issued no read or write beyond candidate k, the entries
\* of candidate k and of the later candidates stay as detection found them
\* (the failed candidate is not marked), and nothing has been published.
C17_StoreFailureInDetection ==
    [][(/\ pc \in {"det_loop", "det_set"}
        /\ lastEnd'.error \in {"store", "version"}) =>
         /\ pc' = "idle"
         /\ published = <<>>
         /\ detOps <= 2 * (k - 1) + (IF pc = "det_set" THEN 1 ELSE 0)
         /\ kvFeatures' = kvFeatures
         /\ \A n \in k..Len(latestData) :
               kvFeatures'[latestData[n].key] = store0[latestData[n].key]]_vars

\* The set of the second changed candidate failed after the first one's
\* entry was written.
C17_Witness ==
    /\ pc = "idle"
    /\ lastEnd.error = "store"
    /\ lastEnd.at = "det_set"
    /\ lastEnd.writes = 1

\* ---------------------------------------------------------------------- C18
\* The errors the program treats as fatal.
FatalErrors == {"fetch", "store", "publish"}

\* The part of C18 that holds: the step in which a fatal error occurs ends
\* the invocation; nothing is retried.
C18_NoInternalRetry ==
    [][(pc # "idle" /\ lastEnd'.error \in FatalErrors) => pc' = "idle"]_vars

\* C18: every invocation ends in success or failure, and one that a fatal
\* error (fetch, store, publish) ended reaches its trigger as a failure.
C18_FailureReporting ==
    (pc = "idle" /\ lastEnd.at # "idle") =>
        /\ lastStatus \in {"success", "failure", "crashed"}
        /\ (lastEnd.error \in FatalErrors) => lastStatus = "failure"
        /\ (lastEnd.error = "none") => lastStatus = "success"

\* ---------------------------------------------------------------------- C19
\* clearDatabase is running, before or at its kv.delete(["db_version"]).
ResetPcs == {"clear_features", "clear_version"}

\* While a reset runs: once it has removed a feature entry the version
\* counter is gone too.
C19_DuringReset ==
    (pc \in ResetPcs /\ writes > 0) => kvVersion = Absent

\* After a reset that a crash or a store failure interrupted: if it had
\* removed a feature entry the version counter is gone too.
C19_AfterInterruptedReset ==
    (pc = "idle" /\ lastEnd.at \in ResetPcs /\ lastEnd.writes > 0) =>
        kvVersion = Absent

\* C19: in every state during or after a reset, interrupted or not, the
\* store never holds the version counter while feature entries have been
\* removed by the reset.
C19_ResetClearsTogether ==
    /\ C19_DuringReset
    /\ C19_AfterInterruptedReset

\* ---------------------------------------------------------------------- C20
\* In an invocation with the reset flag only clearDatabase runs: no
\* migration, no catalog fetch, no detector read or write, no publish.
C20_OnlyClearDatabaseRuns ==
    clearDb =>
        /\ pc \in {"clear_features", "clear_version", "clear_exit"}
        /\ currentVersion = Absent
        /\ i = 0
        /\ latestData = <<>>
        /\ detOps = 0
        /\ newFeatureItems = <<>>
        /\ published = <<>>
        /\ pendingVersion = NoPending

\* clearDatabase has returned: the invocation exits with status 0, leaving
\* the store never-initialized.
C20_ExitsAfterReset ==
    (pc = "clear_exit" /\ lastEnd'.error = "none") =>
        /\ pc' = "idle"
        /\ lastStatus' = "success"
        /\ kvFeatures' = EmptyStore
        /\ kvVersion' = Absent

\* C20: an invocation with the reset flag performs the full reset and then
\* exits; it runs no migration, does no detection read or write, publishes
\* nothing, and the store is never-initialized when it exits.
C20_ResetCommand ==
    /\ []C20_OnlyClearDatabaseRuns
    /\ [][C20_ExitsAfterReset]_vars

\* A reset of a store with two entries and a version has exited.
C20_Witness ==
    /\ pc = "idle"
    /\ lastEnd.at = "clear_exit"
    /\ lastEnd.error = "none"
    /\ lastEnd.writes = NumFeatures + 1
    /\ lastStatus = "success"
    /\ kvFeatures = EmptyStore
    /\ kvVersion = Absent

\* ---------------------------------------------------------------------- C21
\* The runner's index moves one migration at a time: it is set to the
\* persisted version (absent as 0) by prepareDatabase, and goes from i to
\* i + 1 only when migration i has returned; a migration that executes has
\* an index from the start version up to the last one.
C21_InIndexOrder ==
    /\ (i' # i /\ pc' # "idle") =>
          \/ pc = "prepare" /\ i' = StartVersion(kvVersion)
          \/ /\ pc = "mig_set"
             /\ k > Len(latestData)
             /\ i' = i + 1
    /\ MigrationExecuting' =>
          /\ i' >= StartVersion(currentVersion')
          /\ i' < NumMigrations

\* The version write is issued, and takes effect, only once every migration
\* of the range has returned, and with the number of migrations.
C21_VersionAfterAll ==
    /\ (pendingVersion' # pendingVersion /\ pendingVersion' # NoPending) =>
          /\ pc = "mig_loop"
          /\ i = NumMigrations
          /\ pendingVersion' = NumMigrations
    /\ (kvVersion' # kvVersion /\ kvVersion' # Absent) =>
          /\ i = NumMigrations
          /\ kvVersion' = NumMigrations

\* C21: the runner executes the migrations from the persisted version
\* (absent as 0) to the last in index order, each returning before the next
\* starts, and the version is written only after all of them, with their
\* number: the persisted version is always absent or the number of
\* migrations, never a value in between.
C21_RunnerAlgorithm ==
    /\ [][C21_InIndexOrder]_vars
    /\ [][C21_VersionAfterAll]_vars
    /\ [](kvVersion \in {Absent, NumMigrations})

\* The version written after the migration has taken effect in the run that
\* migrated.
C21_Witness ==
    /\ PreparedNow
    /\ NeedsMigration(currentVersion)
    /\ i = NumMigrations
    /\ kvVersion = NumMigrations
    /\ kvFeatures # EmptyStore

\* ---------------------------------------------------------------------- C22
\* No step deletes a feature entry, except clearDatabase's delete loop: the
\* set of feature ids that hold an entry only grows otherwise.
C22_OnlyResetDeletes ==
    (\E id \in FeatureIds :
        kvFeatures[id] # NoHash /\ kvFeatures'[id] = NoHash) =>
        /\ clearDb
        /\ pc = "clear_features"

\* A feature that was not in the catalog of the last completed run still
\* holds its entry when the next detection starts; when it is back with the
\* record of that entry, the detection does not report it.
C22_NotReportedOnReturn ==
    DetectionReturned =>
        \A id \in gone :
            /\ store0[id] # NoHash
            /\ \A n \in 1..Len(latestData) :
                  (/\ latestData[n].key = id
                   /\ store0[id] = hashFeature(hashedItem(latestData[n]))) =>
                      ~Reported(ResultOf(latestData[n]), newFeatureItems)

\* C22: no migration, detection or publish step deletes a feature entry;
\* outside a reset the set of feature ids in the store only grows, also when
\* a feature leaves the catalog, so a feature that leaves and comes back
\* with an unchanged record is not reported again.
C22_EntryLifecycle ==
    /\ [][C22_OnlyResetDeletes]_vars
    /\ []C22_NotReportedOnReturn

\* A feature that was absent from the last completed run's catalog is back
\* with the record its entry holds, and the detection returned nothing.
C22_Witness ==
    /\ DetectionReturned
    /\ newFeatureItems = <<>>
    /\ \E n \in 1..Len(latestData) :
          /\ latestData[n].key \in gone
          /\ store0[latestData[n].key] =
                 hashFeature(hashedItem(latestData[n]))

\* C23 (no mutual exclusion): an invocation can start whatever the position
\* of the other one, each run decides on the entry it reads at its own get,
\* and each set overwrites the entry with the writer's fingerprint whatever
\* the other run wrote in between.  So two overlapping runs can both report
\* the same changed feature, and the fingerprint of the record fetched
\* first can be the one that stays.
C23_NeverBlocked ==
    \A p \in Processes :
        overlapped[p].pc = "idle" => ENABLED OverlapStart(p)

C23_OwnReadDecides ==
    \A p \in Processes :
        (overlapped[p].pc = "det_loop" /\ overlapped'[p].pc = "det_set")
            => IsNewOrChanged(
                   kvFeatures[overlapped[p].latestData[overlapped[p].k].key],
                   overlapped'[p].featureHash)

C23_LastWriteWins ==
    \A p \in Processes :
        (overlapped[p].pc = "det_set" /\ overlapped'[p].pc = "det_loop")
            => kvFeatures'[overlapped[p].latestData[overlapped[p].k].key]
                   = overlapped[p].featureHash

C23_NoMutualExclusion ==
    /\ []C23_NeverBlocked
    /\ [][C23_OwnReadDecides]_vars
    /\ [][C23_LastWriteWins]_vars

\* Both runs have published the same feature with the same record, and of
\* another feature, fetched with two records and published by both, the
\* entry is the fingerprint of the record that was fetched first.
C23_Witness ==
    \E p, q \in Processes :
        LET first == overlapped[p]
            second == overlapped[q]
        IN  /\ p # q
            /\ first.pc = "publish"
            /\ second.pc = "publish"
            /\ second.later
            /\ first.published = first.newFeatureItems
            /\ second.published = second.newFeatureItems
            /\ \E n \in 1..Len(first.published),
                  m \in 1..Len(second.published) :
                 first.published[n] = second.published[m]
            /\ \E n \in 1..Len(first.latestData),
                  m \in 1..Len(second.latestData) :
                 LET id == first.latestData[n].key
                     older == hashFeature(first.latestData[n].item)
                     newer == hashFeature(second.latestData[m].item)
                 IN  /\ id = second.latestData[m].key
                     /\ older # newer
                     /\ kvFeatures[id] = older
                     /\ \E a \in 1..Len(first.published) :
                          first.published[a].feature_id = id
                     /\ \E b \in 1..Len(second.published) :
                          second.published[b].feature_id = id

\* The position of feature `id` in the catalog `data`.
IndexIn(data, id) == CHOOSE n \in 1..Len(data) : data[n].key = id

\* C24 (sequential processing): the detector handles the candidates one at
\* a time in input order, so its result lists features in catalog order, all
\* of them at or before the candidate being handled, and a pending store
\* write is that of the last feature pushed; publishing starts only after
\* detection of the whole batch has returned, and features are published one
\* per step in the order of the detection result.
C24_DetectInInputOrder ==
    (pc \in {"det_loop", "det_set", "publish", "done"}) =>
        /\ \A a, b \in 1..Len(newFeatureItems) :
               a < b => IndexIn(latestData, newFeatureItems[a].feature_id)
                          < IndexIn(latestData, newFeatureItems[b].feature_id)
        /\ \A a \in 1..Len(newFeatureItems) :
               IndexIn(latestData, newFeatureItems[a].feature_id)
                   < (IF pc = "det_set" THEN k + 1 ELSE k)
        /\ pc = "det_set" =>
               /\ newFeatureItems # <<>>
               /\ newFeatureItems[Len(newFeatureItems)].feature_id
                      = latestData[k].key

C24_DetectOneAtATime ==
    (pc \in {"det_loop", "det_set"} /\ pc' \in {"det_loop", "det_set"}) =>
        /\ k' \in {k, k + 1}
        /\ Len(newFeatureItems') <= Len(newFeatureItems) + 1
        /\ writes' <= writes + 1
        /\ \A id \in FeatureIds :
               kvFeatures'[id] # kvFeatures[id] => id = latestData[k].key

C24_PublishAfterDetection ==
    /\ published # <<>> => pc \in {"publish", "done"}
    /\ pc \in {"publish", "done"} => k = Len(latestData) + 1
    /\ Len(published) <= Len(newFeatureItems)
    /\ \A n \in 1..Len(published) : published[n] = newFeatureItems[n]

C24_PublishOneAtATime ==
    (pc = "publish" /\ pc' \in {"publish", "done"}) =>
        /\ Len(published') <= Len(published) + 1
        /\ newFeatureItems' = newFeatureItems
        /\ pc' = "done" => published = newFeatureItems

C24_SequentialProcessing ==
    /\ []C24_DetectInInputOrder
    /\ [][C24_DetectOneAtATime]_vars
    /\ []C24_PublishAfterDetection
    /\ [][C24_PublishOneAtATime]_vars

\* Two features were detected one after the other and the first of them has
\* been published while the second is still to be published.
C24_Witness ==
    /\ pc = "publish"
    /\ Len(newFeatureItems) = 2
    /\ Len(published) = 1

\* The invocation is complete: the publisher has returned and no write is
\* in flight.
AtCompletion == pc = "done" /\ pendingVersion = NoPending

\* Every candidate's entry is the fingerprint of its record.
CandidatesMarked ==
    \A n \in 1..Len(latestData) :
        kvFeatures[latestData[n].key] = hashFeature(latestData[n].item)

\* Every feature of the detection result has been published exactly once.
PublishedExactlyOnce ==
    /\ published = newFeatureItems
    /\ \A a, b \in 1..Len(published) :
           published[a].feature_id = published[b].feature_id => a = b

\* C25 (run completion): with no crash and no failure, under fairness, every
\* run that starts eventually completes, and at completion the version
\* equals the number of migrations, every candidate's entry is the
\* fingerprint of its record, and every feature of the result has been
\* published exactly once.
C25_EventuallyCompletes == (pc # "idle") ~> (pc = "idle")

C25_AtCompletion ==
    AtCompletion =>
        /\ kvVersion = NumMigrations
        /\ CandidatesMarked
        /\ PublishedExactlyOnce

C25_RunCompletion ==
    /\ C25_EventuallyCompletes
    /\ []C25_AtCompletion

\* The part of C25 that holds: every run completes, with the candidates
\* marked and the result published once; the version is the number of
\* migrations at the completion of a run started through entrypoint.
C25_CompletionWithoutVersion ==
    /\ C25_EventuallyCompletes
    /\ [](AtCompletion =>
             /\ CandidatesMarked
             /\ PublishedExactlyOnce
             /\ trigger = "cli" => kvVersion = NumMigrations)

\* entrypoint found the version absent and its runner has executed
\* MIGRATIONS[0] in this invocation.
BaselinedThisRun ==
    /\ trigger = "cli"
    /\ ~clearDb
    /\ currentVersion = Absent
    /\ pc \in {"fetch", "det_loop", "det_set", "publish", "done"}

\* The record of feature `id` in `data` is `record`.
HasRecord(data, id, record) ==
    \E n \in 1..Len(data) : data[n].key = id /\ data[n].item = record

\* C26 (silent first-run baseline): in an invocation of entrypoint that found
\* the version absent, when the runner returns every feature of the catalog
\* the migration fetched has as entry the fingerprint the detector computes
\* for that record; the detection of that invocation reports no feature
\* whose record is the same in the migration's catalog, and reports nothing
\* when the detector's catalog is the migration's catalog.
C26_BaselineAsDetectorHashes ==
    (BaselinedThisRun /\ pc = "fetch") =>
        \A n \in 1..Len(baselineData) :
            kvFeatures[baselineData[n].key]
                = hashFeature(hashedItem(baselineData[n]))

C26_OnlyDifferingReported ==
    (BaselinedThisRun /\ pc # "fetch") =>
        /\ \A n \in 1..Len(newFeatureItems) :
               ~HasRecord(baselineData, newFeatureItems[n].feature_id,
                          RecordOf(newFeatureItems[n]))
        /\ baselineData = latestData => newFeatureItems = <<>>

C26_SilentFirstRun ==
    /\ C26_BaselineAsDetectorHashes
    /\ C26_OnlyDifferingReported

\* A first run whose two fetches returned the same catalog of NumFeatures
\* features has completed detection and publishing with an empty result.
C26_Witness ==
    /\ BaselinedThisRun
    /\ pc = "done"
    /\ Len(baselineData) = NumFeatures
    /\ baselineData = latestData
    /\ newFeatureItems = <<>>
    /\ kvFeatures # EmptyStore

\* A step of extractNewFeaturesFromData after its fetch.
DetectorStep ==
    /\ pc \in {"det_loop", "det_set"}
    /\ pc' \in {"det_loop", "det_set", "publish"}
    /\ <<pc, k, newFeatureItems>>' # <<pc, k, newFeatureItems>>

\* Feature `id` is in the result so far.
InResult(id) ==
    \E n \in 1..Len(newFeatureItems) : newFeatureItems[n].feature_id = id

\* C27 (detector frame): a step of the detector changes no entry but that of
\* the candidate it has just pushed to the result, and neither the version
\* counter nor a version write in flight; so from the fetch on the entry of
\* every feature that is not in the result is as detection found it, and the
\* number of store writes of a detection that has returned is the length of
\* its result.
C27_StepFrame ==
    DetectorStep =>
        /\ kvVersion' = kvVersion
        /\ pendingVersion' = pendingVersion
        /\ \A id \in FeatureIds :
               kvFeatures'[id] # kvFeatures[id] =>
                   /\ pc = "det_set"
                   /\ id = latestData[k].key
                   /\ newFeatureItems[Len(newFeatureItems)].feature_id = id
        /\ writes' # writes =>
               /\ pc = "det_set"
               /\ writes' = writes + 1

C27_RunFrame ==
    (pc \in {"det_loop", "det_set", "publish", "done"}) =>
        /\ \A id \in FeatureIds :
               ~InResult(id) => kvFeatures[id] = store0[id]
        /\ writes = Len(newFeatureItems) - (IF pc = "det_set" THEN 1 ELSE 0)

C27_DetectorFrame ==
    /\ [][C27_StepFrame]_vars
    /\ []C27_RunFrame

\* A detection over two candidates has returned one of them: one store write
\* was made, and the entry of the other candidate is as it was.
C27_Witness ==
    /\ pc = "publish"
    /\ Len(latestData) = 2
    /\ Len(newFeatureItems) = 1
    /\ writes = 1
    /\ \E n \in 1..2 :
         /\ ~InResult(latestData[n].key)
         /\ kvFeatures[latestData[n].key] = store0[latestData[n].key]
         /\ store0[latestData[n].key] # NoHash

====
